---- MODULE Spec2Model ----
(***************************************************************************)
(* A model of the ECS library: the Registry (entity id free-list and the   *)
(* map of component arrays), ComponentArray<T> (packed array with the      *)
(* entity->index and index->entity maps) and View<T0, T1>::Each.           *)
(*                                                                         *)
(* Conventions                                                             *)
(*  - std::unordered_map is a TLA+ function whose DOMAIN is the key set;   *)
(*    operator[] on a missing key inserts the key with the value 0.        *)
(*  - size_t arithmetic is taken modulo SizeMod.                           *)
(*  - An access to m_ComponentArray at an index >= MaxEntities is          *)
(*    undefined behaviour: a read yields any value (the parameter g of the *)
(*    operators below, chosen by the caller with \E), a write does not     *)
(*    change any slot of the array.                                        *)
(*  - The iteration order of an unordered_map is unspecified: View::Each   *)
(*    walks the keys in an order chosen with \E.                           *)
(***************************************************************************)
EXTENDS Integers, Sequences, FiniteSets, TLC

\* MAX_ENTITIES, scaled down from 50000.
MaxEntities == 3
\* Component values are 1 .. MaxValue; 0 is the value-initialised T{}.
MaxValue == 2
\* Width in bits of the stand-in for size_t (64 in the build).
IndexBits == 8
\* Width in bits of the stand-in for uint32_t (32 in the build).
CountBits == 8
\* The slots in use, all arrays together, that the life-cycle caller goes up to.
MaxSlots == 2
\* The same, for the caller that keeps the record of what was detached.
MaxTracked == 3

SizeMod == 2 ^ IndexBits
CountMod == 2 ^ CountBits
Entity == 0 .. (MaxEntities - 1)
\* The component types of View<T_0, T_1>, in request order: their type ids.
ViewTypes == <<0, 1>>
TypeIds == {ViewTypes[j] : j \in DOMAIN ViewTypes}
Values == 1 .. MaxValue
Slots == 0 .. (MaxEntities - 1)
AnyValue == 0 .. MaxValue

VARIABLES
    m_AvailableEntities,   \* std::queue<Entity>: the free-list, front first
    m_LivingEntityCount,   \* uint32_t
    m_ComponentArrays,     \* unordered_map<ComponentTypeId, ComponentArray>
    living,                \* the ids CreateEntity returned and the caller has not destroyed
    detached,              \* <<t, e>>: e was destroyed and T_t not added to it since
    last                   \* the last call and what it returned

vars == <<m_AvailableEntities, m_LivingEntityCount, m_ComponentArrays,
          living, detached, last>>

----------------------------------------------------------------------------
\* std::unordered_map

EmptyMap == [k \in {} |-> 0]

MapSet(f, k, v) == [x \in (DOMAIN f) \cup {k} |-> IF x = k THEN v ELSE f[x]]

MapErase(f, k) == [x \in (DOMAIN f) \ {k} |-> f[x]]

\* The map after operator[](k): a missing key is inserted with the value 0.
MapIndex(f, k) == IF k \in DOMAIN f THEN f ELSE MapSet(f, k, 0)

----------------------------------------------------------------------------
\* ComponentArray<T>

EmptyArray ==
    [ m_ComponentArray   |-> [i \in Slots |-> 0],
      m_EntityToIndexMap |-> EmptyMap,
      m_IndexToEntityMap |-> EmptyMap,
      m_Size             |-> 0 ]

\* m_ComponentArray[i] read; g is what an out-of-bounds read yields.
ArrayRead(a, i, g) == IF i \in Slots THEN a[i] ELSE g

\* m_ComponentArray[i] = v.
ArrayWrite(a, i, v) == IF i \in Slots THEN [a EXCEPT ![i] = v] ELSE a

InsertData(s, entity, v) ==
    LET newIndex == s.m_Size
    IN  [ m_ComponentArray   |-> ArrayWrite(s.m_ComponentArray, newIndex, v),
          m_EntityToIndexMap |-> MapSet(s.m_EntityToIndexMap, entity, newIndex),
          m_IndexToEntityMap |-> MapSet(s.m_IndexToEntityMap, newIndex, entity),
          m_Size             |-> (s.m_Size + 1) % SizeMod ]

RemoveData(s, entity, g) ==
    LET e2i0 == MapIndex(s.m_EntityToIndexMap, entity)
        indexOfRemovedEntity == e2i0[entity]
        indexOfLastElement == (s.m_Size + SizeMod - 1) % SizeMod
        i2e0 == MapIndex(s.m_IndexToEntityMap, indexOfLastElement)
        entityOfLastElement == i2e0[indexOfLastElement]
        e2i1 == MapSet(e2i0, entityOfLastElement, indexOfRemovedEntity)
        i2e1 == MapSet(i2e0, indexOfRemovedEntity, entityOfLastElement)
    IN  [ m_ComponentArray   |->
              ArrayWrite(s.m_ComponentArray, indexOfRemovedEntity,
                         ArrayRead(s.m_ComponentArray, indexOfLastElement, g)),
          m_EntityToIndexMap |-> MapErase(e2i1, entity),
          m_IndexToEntityMap |-> MapErase(i2e1, indexOfLastElement),
          m_Size             |-> indexOfLastElement ]

\* The value GetData returns.
GetData(s, entity, g) ==
    ArrayRead(s.m_ComponentArray, MapIndex(s.m_EntityToIndexMap, entity)[entity], g)

\* The array after GetData: operator[] has inserted a missing entity.
GetDataTouch(s, entity) ==
    [s EXCEPT !.m_EntityToIndexMap = MapIndex(s.m_EntityToIndexMap, entity)]

HasData(s, entity) == entity \in DOMAIN s.m_EntityToIndexMap

\* OnEntityDestroyed without the contains() test.
OnEntityDestroyedUnguarded(s, entity, g) == RemoveData(s, entity, g)

OnEntityDestroyed(s, entity, g) ==
    IF HasData(s, entity) THEN RemoveData(s, entity, g) ELSE s

----------------------------------------------------------------------------
\* Registry

\* m_ComponentArrays after GetComponentArray<T_t>(): the array is made on first use.
GetComponentArray(t) ==
    IF t \in DOMAIN m_ComponentArrays
    THEN m_ComponentArrays
    ELSE MapSet(m_ComponentArrays, t, EmptyArray)

\* A call, as `last` keeps it: its arguments, what it returned, whether its
\* assert failed, and whether the array held the entity when it began.
Call(op, t, e, v, ret, err, had) ==
    [op |-> op, t |-> t, e |-> e, v |-> v, ret |-> ret, err |-> err, had |-> had]

\* HasData(entity) of the array of T_t, FALSE when the array is not made yet.
Has(t, entity) ==
    t \in DOMAIN m_ComponentArrays /\ HasData(m_ComponentArrays[t], entity)

\* The queue the constructor fills: push(id) for id = 0 .. n-1.
RECURSIVE PushAll(_)
PushAll(n) == IF n = 0 THEN <<>> ELSE Append(PushAll(n - 1), n - 1)

Init ==
    /\ m_AvailableEntities = PushAll(MaxEntities)
    /\ m_LivingEntityCount = 0
    /\ m_ComponentArrays = EmptyMap
    /\ living = {}
    /\ detached = {}
    /\ last = Call("Registry", 0, 0, 0, 0, FALSE, FALSE)

\* The ids in the free-list.
Available == {m_AvailableEntities[i] : i \in DOMAIN m_AvailableEntities}

\* The assert of CreateEntity fails: the call ends there, nothing is changed.
CreateEntityFull ==
    /\ ~(m_LivingEntityCount < MaxEntities)
    /\ last' = Call("CreateEntity", 0, 0, 0, 0, TRUE, FALSE)
    /\ UNCHANGED <<m_AvailableEntities, m_LivingEntityCount, m_ComponentArrays,
                   living>>

\* CreateEntity that reads the front of the queue and does not pop it.
CreateEntityNoPop ==
    /\ m_LivingEntityCount < MaxEntities
    /\ m_AvailableEntities # <<>>
    /\ LET id == Head(m_AvailableEntities)
       IN  /\ m_AvailableEntities' = m_AvailableEntities
           /\ m_LivingEntityCount' = m_LivingEntityCount + 1
           /\ living' = living \cup {id}
           /\ last' = Call("CreateEntity", 0, 0, 0, id, FALSE, FALSE)
    /\ UNCHANGED m_ComponentArrays

CreateEntityOk ==
    /\ m_LivingEntityCount < MaxEntities
    /\ m_AvailableEntities # <<>>   \* front() of an empty queue is not followed
    /\ LET id == Head(m_AvailableEntities)
       IN  /\ m_AvailableEntities' = Tail(m_AvailableEntities)
           /\ m_LivingEntityCount' = m_LivingEntityCount + 1
           /\ living' = living \cup {id}
           /\ last' = Call("CreateEntity", 0, 0, 0, id, FALSE, FALSE)
    /\ UNCHANGED m_ComponentArrays

CreateEntity == CreateEntityOk \/ CreateEntityFull

\* Registry::OnEntityDestroyed: every array held is notified.
RegistryOnEntityDestroyed(entity, g) ==
    [t \in DOMAIN m_ComponentArrays |->
        OnEntityDestroyed(m_ComponentArrays[t], entity, g)]

\* DestroyEntity that does not count the entity off.
DestroyEntityNoCount(entity, g) ==
    /\ entity < MaxEntities
    /\ m_ComponentArrays' = RegistryOnEntityDestroyed(entity, g)
    /\ m_AvailableEntities' = Append(m_AvailableEntities, entity)
    /\ m_LivingEntityCount' = m_LivingEntityCount
    /\ living' = living \ {entity}
    /\ last' = Call("DestroyEntity", 0, entity, 0, 0, FALSE, FALSE)

\* DestroyEntity that puts the id at the front of the free-list.
DestroyEntityPushFront(entity, g) ==
    /\ entity < MaxEntities
    /\ m_ComponentArrays' = RegistryOnEntityDestroyed(entity, g)
    /\ m_AvailableEntities' = <<entity>> \o m_AvailableEntities
    /\ m_LivingEntityCount' = (m_LivingEntityCount + CountMod - 1) % CountMod
    /\ living' = living \ {entity}
    /\ last' = Call("DestroyEntity", 0, entity, 0, 0, FALSE, FALSE)

DestroyEntity(entity, g) ==
    /\ entity < MaxEntities
    /\ m_ComponentArrays' = RegistryOnEntityDestroyed(entity, g)
    /\ m_AvailableEntities' = Append(m_AvailableEntities, entity)
    /\ m_LivingEntityCount' = (m_LivingEntityCount + CountMod - 1) % CountMod
    /\ living' = living \ {entity}
    /\ last' = Call("DestroyEntity", 0, entity, 0, 0, FALSE, FALSE)

\* AddComponent<T_t>(entity, v)
AddComponent(t, entity, v) ==
    /\ m_ComponentArrays' =
           [GetComponentArray(t) EXCEPT ![t] = InsertData(@, entity, v)]
    /\ last' = Call("AddComponent", t, entity, v, v, FALSE, Has(t, entity))
    /\ UNCHANGED <<m_AvailableEntities, m_LivingEntityCount, living>>

\* GetComponent<T_t>(entity)
GetComponent(t, entity, g) ==
    /\ m_ComponentArrays' =
           [GetComponentArray(t) EXCEPT ![t] = GetDataTouch(@, entity)]
    /\ last' = Call("GetComponent", t, entity, 0,
                    GetData(GetComponentArray(t)[t], entity, g), FALSE, Has(t, entity))
    /\ UNCHANGED <<m_AvailableEntities, m_LivingEntityCount, living>>

\* HasComponent<T_t>(entity)
HasComponent(t, entity) ==
    /\ m_ComponentArrays' = GetComponentArray(t)
    /\ last' = Call("HasComponent", t, entity, 0,
                    HasData(GetComponentArray(t)[t], entity), FALSE, Has(t, entity))
    /\ UNCHANGED <<m_AvailableEntities, m_LivingEntityCount, living>>

\* RemoveComponent<T_t>(entity)
RemoveComponent(t, entity, g) ==
    /\ m_ComponentArrays' =
           [GetComponentArray(t) EXCEPT ![t] = RemoveData(@, entity, g)]
    /\ last' = Call("RemoveComponent", t, entity, 0, 0, FALSE, Has(t, entity))
    /\ UNCHANGED <<m_AvailableEntities, m_LivingEntityCount, living>>

\* ComponentArray<T_t>::OnEntityDestroyed(entity), called on the array itself.
ArrayOnEntityDestroyed(t, entity, g) ==
    /\ t \in DOMAIN m_ComponentArrays
    /\ m_ComponentArrays' =
           [m_ComponentArrays EXCEPT ![t] = OnEntityDestroyed(@, entity, g)]
    /\ last' = Call("OnEntityDestroyed", t, entity, 0, 0, FALSE, Has(t, entity))
    /\ UNCHANGED <<m_AvailableEntities, m_LivingEntityCount, living>>

----------------------------------------------------------------------------
\* View<T_0, T_1>

\* The orders in which an unordered_map with key set S may be walked.
Orders(S) ==
    {o \in [1 .. Cardinality(S) -> S] : \A i, j \in DOMAIN o : i # j => o[i] # o[j]}

\* An operator* that reads the slot at m_Index itself.
IteratorDerefAtIndex(s, m_Index, g) ==
    ArrayRead(s.m_ComponentArray, m_Index, g)

\* Iterator::operator*: m_ComponentArray[m_Index - 1].
IteratorDeref(s, m_Index, g) ==
    ArrayRead(s.m_ComponentArray, (m_Index + SizeMod - 1) % SizeMod, g)

\* DispatchGet<T_c>(compIt, entity): the iterator's own slot when T_c is the
\* iterator's value type, GetData of T_c's array otherwise.
DispatchGet(arrays, c, m_Index, entity, g) ==
    IF c = ViewTypes[1]
    THEN IteratorDeref(arrays[ViewTypes[1]], m_Index, g)
    ELSE GetData(arrays[c], entity, g)

\* The arrays after the DispatchGet calls of one round of Each's loop.
DispatchTouch(arrays, entity) ==
    [t \in DOMAIN arrays |->
        IF t # ViewTypes[1] /\ \E j \in DOMAIN ViewTypes : ViewTypes[j] = t
        THEN GetDataTouch(arrays[t], entity)
        ELSE arrays[t]]

\* Each's loop from the k-th entity of the walk on, the component iterator at
\* m_Index: the arguments of every call of func, and the arrays at the end.
RECURSIVE EachLoop(_, _, _, _, _)
EachLoop(arrays, order, k, m_Index, g) ==
    IF k > Len(order)
    THEN [arrays |-> arrays, calls |-> <<>>]
    ELSE LET entity == order[k]
             args == [j \in DOMAIN ViewTypes |->
                         DispatchGet(arrays, ViewTypes[j], m_Index, entity, g)]
             rest == EachLoop(DispatchTouch(arrays, entity), order, k + 1,
                              (m_Index + SizeMod - 1) % SizeMod, g)
         IN  [arrays |-> rest.arrays,
              calls  |-> <<[entity |-> entity, args |-> args]>> \o rest.calls]

\* The arrays after Registry::View<T_0, T_1>().
ViewArrays ==
    LET a0 == GetComponentArray(ViewTypes[1])
    IN  IF ViewTypes[2] \in DOMAIN a0 THEN a0 ELSE MapSet(a0, ViewTypes[2], EmptyArray)

\* View::Contains(entity)
Contains(arrays, entity) ==
    \A j \in DOMAIN ViewTypes : HasData(arrays[ViewTypes[j]], entity)

\* registry.View<T_0, T_1>().Each(func), the entities walked in `order`.
Each(order, g) ==
    LET arr == ViewArrays[ViewTypes[1]]
        run == EachLoop(ViewArrays, order, 1, arr.m_Size, g)
    IN  /\ order \in Orders(DOMAIN arr.m_EntityToIndexMap)
        /\ m_ComponentArrays' = run.arrays
        /\ last' = Call("Each", 0, 0, 0, run.calls, FALSE, FALSE)
        /\ UNCHANGED <<m_AvailableEntities, m_LivingEntityCount, living>>

\* A range iteration that walks only the entities every array of the view holds.
RangeFiltered ==
    \E order \in Orders({entity \in Entity : Contains(ViewArrays, entity)}) :
        /\ m_ComponentArrays' = ViewArrays
        /\ last' = Call("Range", 0, 0, 0, order, FALSE, FALSE)
        /\ UNCHANGED <<m_AvailableEntities, m_LivingEntityCount, living>>

\* for (Entity e : registry.View<T_0, T_1>()): View::begin() .. View::end(),
\* the EntityIterator of the first array, walking its map in some order.
Range ==
    \E order \in Orders(DOMAIN ViewArrays[ViewTypes[1]].m_EntityToIndexMap) :
        /\ m_ComponentArrays' = ViewArrays
        /\ last' = Call("Range", 0, 0, 0, order, FALSE, FALSE)
        /\ UNCHANGED <<m_AvailableEntities, m_LivingEntityCount, living>>

\* for (Entity e : registry.View<T_t>()): the same, for the view of one type.
RangeOne(t) ==
    \E order \in Orders(DOMAIN GetComponentArray(t)[t].m_EntityToIndexMap) :
        /\ m_ComponentArrays' = GetComponentArray(t)
        /\ last' = Call("RangeOne", t, 0, 0, order, FALSE, FALSE)
        /\ UNCHANGED <<m_AvailableEntities, m_LivingEntityCount, living>>

\* registry.View<T_0, T_1>().Contains(entity)
ViewContains(entity) ==
    /\ m_ComponentArrays' = ViewArrays
    /\ last' = Call("Contains", 0, entity, 0, Contains(ViewArrays, entity), FALSE, FALSE)
    /\ UNCHANGED <<m_AvailableEntities, m_LivingEntityCount, living>>

\* View::Get whose assert fails: the call ends there.
ViewGetFails(entity) ==
    /\ ~Contains(ViewArrays, entity)
    /\ m_ComponentArrays' = ViewArrays
    /\ last' = Call("Get", 0, entity, 0, <<>>, TRUE, FALSE)
    /\ UNCHANGED <<m_AvailableEntities, m_LivingEntityCount, living>>

\* The body of View::Get<>(entity): GetAsTuple of every array of the view.
ViewGetData(entity, g) ==
    /\ m_ComponentArrays' =
           [t \in DOMAIN ViewArrays |-> GetDataTouch(ViewArrays[t], entity)]
    /\ last' = Call("Get", 0, entity, 0,
                    [j \in DOMAIN ViewTypes |->
                        GetData(ViewArrays[ViewTypes[j]], entity, g)],
                    FALSE, Contains(ViewArrays, entity))
    /\ UNCHANGED <<m_AvailableEntities, m_LivingEntityCount, living>>

\* View::Get that does not test Contains.
ViewGetUnasserted(entity, g) == ViewGetData(entity, g)

\* registry.View<T_0, T_1>().Get(entity)
ViewGet(entity, g) ==
    \/ Contains(ViewArrays, entity) /\ ViewGetData(entity, g)
    \/ ViewGetFails(entity)

\* for (T& c : array): from begin() (m_Index = m_Size) until the iterator
\* equals end() (m_Index = 0), the values operator* yields, operator++ taking
\* one off m_Index.
RECURSIVE IterateFrom(_, _, _)
IterateFrom(s, m_Index, g) ==
    IF m_Index = 0
    THEN <<>>
    ELSE <<IteratorDeref(s, m_Index, g)>>
             \o IterateFrom(s, (m_Index + SizeMod - 1) % SizeMod, g)

\* The range-for over the component array of T_t.
Iterate(t, g) ==
    /\ t \in DOMAIN m_ComponentArrays
    /\ last' = Call("Iterate", t, 0, 0,
                    IterateFrom(m_ComponentArrays[t], m_ComponentArrays[t].m_Size, g),
                    FALSE, FALSE)
    /\ UNCHANGED <<m_AvailableEntities, m_LivingEntityCount, m_ComponentArrays,
                   living>>

----------------------------------------------------------------------------
\* Specifications

\* The array of T_t is followed until m_Size has passed the capacity: one
\* InsertData past the end of the array, or m_Size wrapped around below 0.
Followed(t) ==
    t \in DOMAIN m_ComponentArrays =>
        m_ComponentArrays[t].m_Size <= MaxEntities

SizeOf(t) ==
    IF t \in DOMAIN m_ComponentArrays THEN m_ComponentArrays[t].m_Size ELSE 0

RECURSIVE SlotsInUse(_)
SlotsInUse(T) ==
    IF T = {} THEN 0
    ELSE LET t == CHOOSE x \in T : TRUE IN SizeOf(t) + SlotsInUse(T \ {t})

\* Every entity of the first array of the view is in all its arrays.
ViewIsWhole ==
    \A entity \in DOMAIN ViewArrays[ViewTypes[1]].m_EntityToIndexMap :
        Contains(ViewArrays, entity)

\* The one value the callers below attach where what a component holds plays
\* no part; the caller of a view attaches any of Values.
LifeValues == {1}

\* The life-cycle caller: it works on the entities it holds, attaches
\* components to them (again, too, when one is there already), and reads and
\* removes only components that are there.
Next ==
    \/ CreateEntity /\ UNCHANGED detached
    \/ \E entity \in living, g \in AnyValue :
          /\ \A t \in TypeIds : Followed(t)
          /\ DestroyEntity(entity, g)
          /\ UNCHANGED detached
    \/ \E t \in TypeIds, entity \in living, v \in LifeValues :
          /\ Followed(t)
          /\ SlotsInUse(TypeIds) < MaxSlots
          /\ AddComponent(t, entity, v)
          /\ UNCHANGED detached
    \/ \E t \in TypeIds, entity \in living, g \in AnyValue :
          /\ Has(t, entity)
          /\ GetComponent(t, entity, g)
          /\ UNCHANGED detached
    \/ \E t \in TypeIds, entity \in living, g \in AnyValue :
          /\ Followed(t)
          /\ Has(t, entity)
          /\ RemoveComponent(t, entity, g)
          /\ UNCHANGED detached

Spec == Init /\ [][Next]_vars

\* detached after a step: DestroyEntity(e) detaches every type from e,
\* AddComponent<T_t>(e) attaches T_t again.
Track ==
    detached' =
        CASE last'.op = "DestroyEntity" -> detached \cup {<<t, last'.e>> : t \in TypeIds}
          [] last'.op = "AddComponent"  -> detached \ {<<last'.t, last'.e>>}
          [] OTHER                      -> detached

\* The life-cycle caller, with the record of what has been detached, up to
\* MaxTracked slots in use.
NextTracked ==
    \/ CreateEntity /\ Track
    \/ \E entity \in living, g \in AnyValue :
          /\ \A t \in TypeIds : Followed(t)
          /\ DestroyEntity(entity, g)
          /\ Track
    \/ \E t \in TypeIds, entity \in living, v \in LifeValues :
          /\ Followed(t)
          /\ SlotsInUse(TypeIds) < MaxTracked
          /\ AddComponent(t, entity, v)
          /\ Track
    \/ \E t \in TypeIds, entity \in living, g \in AnyValue :
          /\ Followed(t)
          /\ Has(t, entity)
          /\ RemoveComponent(t, entity, g)
          /\ Track

SpecTracked == Init /\ [][NextTracked]_vars

\* The caller of a view: every component is attached once to an entity it
\* holds, and Each is called when every entity of the first array has all
\* the components of the view.
NextView ==
    \/ CreateEntity /\ UNCHANGED detached
    \/ \E entity \in living, g \in AnyValue :
          DestroyEntity(entity, g) /\ UNCHANGED detached
    \/ \E t \in TypeIds, entity \in living, v \in Values :
          /\ ~Has(t, entity)
          /\ AddComponent(t, entity, v)
          /\ UNCHANGED detached
    \/ \E order \in Orders(DOMAIN ViewArrays[ViewTypes[1]].m_EntityToIndexMap),
          g \in AnyValue :
          /\ ViewIsWhole
          /\ Each(order, g)
          /\ UNCHANGED detached

SpecView == Init /\ [][NextView]_vars

\* Any sequence of calls on the one array of type StoreType, on any entity id.
StoreType == ViewTypes[1]

NextStore ==
    \/ \E entity \in Entity, v \in LifeValues :
          /\ Followed(StoreType)
          /\ AddComponent(StoreType, entity, v)
          /\ UNCHANGED detached
    \/ \E entity \in Entity, g \in AnyValue :
          /\ Followed(StoreType)
          /\ RemoveComponent(StoreType, entity, g)
          /\ UNCHANGED detached
    \/ \E entity \in Entity, g \in AnyValue :
          GetComponent(StoreType, entity, g) /\ UNCHANGED detached
    \/ \E entity \in Entity :
          HasComponent(StoreType, entity) /\ UNCHANGED detached
    \/ \E entity \in Entity, g \in AnyValue :
          /\ Followed(StoreType)
          /\ ArrayOnEntityDestroyed(StoreType, entity, g)
          /\ UNCHANGED detached

SpecStore == Init /\ [][NextStore]_vars

\* The caller of views that keeps no discipline: it attaches and removes
\* components of the entities it holds, and uses View<T_0, T_1> and the views of
\* one type whatever the arrays hold.
NextViewAny ==
    \/ CreateEntity /\ UNCHANGED detached
    \/ \E entity \in living, g \in AnyValue :
          /\ \A t \in TypeIds : Followed(t)
          /\ DestroyEntity(entity, g)
          /\ UNCHANGED detached
    \/ \E t \in TypeIds, entity \in living, v \in LifeValues :
          /\ Followed(t)
          /\ SlotsInUse(TypeIds) < MaxSlots
          /\ AddComponent(t, entity, v)
          /\ UNCHANGED detached
    \/ \E t \in TypeIds, entity \in living, g \in AnyValue :
          /\ Followed(t)
          /\ Has(t, entity)
          /\ RemoveComponent(t, entity, g)
          /\ UNCHANGED detached
    \/ Range /\ UNCHANGED detached
    \/ \E t \in TypeIds :
          RangeOne(t) /\ UNCHANGED detached
    \/ \E order \in Orders(DOMAIN ViewArrays[ViewTypes[1]].m_EntityToIndexMap),
          g \in AnyValue :
          /\ \A t \in TypeIds : Followed(t)
          /\ Each(order, g)
          /\ UNCHANGED detached
    \/ \E entity \in Entity :
          ViewContains(entity) /\ UNCHANGED detached
    \/ \E entity \in Entity, g \in AnyValue :
          ViewGet(entity, g) /\ UNCHANGED detached

SpecViewAny == Init /\ [][NextViewAny]_vars


\* The caller that asks what the arrays hold: it attaches components to any
\* entity id, removes those that are there, and asks the views which entities
\* they have.
NextMember ==
    \/ \E t \in TypeIds, entity \in Entity, v \in LifeValues :
          /\ Followed(t)
          /\ SlotsInUse(TypeIds) < MaxSlots
          /\ AddComponent(t, entity, v)
          /\ UNCHANGED detached
    \/ \E t \in TypeIds, entity \in Entity, g \in AnyValue :
          /\ Followed(t)
          /\ Has(t, entity)
          /\ RemoveComponent(t, entity, g)
          /\ UNCHANGED detached
    \/ Range /\ UNCHANGED detached
    \/ \E t \in TypeIds :
          RangeOne(t) /\ UNCHANGED detached
    \/ \E entity \in Entity :
          ViewContains(entity) /\ UNCHANGED detached
    \/ \E entity \in Entity, g \in AnyValue :
          ViewGet(entity, g) /\ UNCHANGED detached

SpecMember == Init /\ [][NextMember]_vars

\* The caller of the one array of type StoreType that attaches any value to
\* any entity id, again too, while a slot of the array is left, removes only
\* what is there, and walks the components.
NextArray ==
    \/ \E entity \in Entity, v \in Values :
          /\ SizeOf(StoreType) < MaxEntities
          /\ AddComponent(StoreType, entity, v)
          /\ UNCHANGED detached
    \/ \E entity \in Entity, g \in AnyValue :
          /\ Followed(StoreType)
          /\ Has(StoreType, entity)
          /\ RemoveComponent(StoreType, entity, g)
          /\ UNCHANGED detached
    \/ \E g \in AnyValue :
          /\ Followed(StoreType)
          /\ Iterate(StoreType, g)
          /\ UNCHANGED detached

SpecArray == Init /\ [][NextArray]_vars

\* The caller of the one array of type StoreType that attaches to any entity
\* id, again too, and removes or notifies the destruction only of what is there.
NextFill ==
    \/ \E entity \in Entity, v \in LifeValues :
          /\ Followed(StoreType)
          /\ AddComponent(StoreType, entity, v)
          /\ UNCHANGED detached
    \/ \E entity \in Entity, g \in AnyValue :
          /\ Followed(StoreType)
          /\ Has(StoreType, entity)
          /\ RemoveComponent(StoreType, entity, g)
          /\ UNCHANGED detached
    \/ \E entity \in Entity, g \in AnyValue :
          /\ Followed(StoreType)
          /\ ArrayOnEntityDestroyed(StoreType, entity, g)
          /\ UNCHANGED detached

SpecFill == Init /\ [][NextFill]_vars

----------------------------------------------------------------------------
\* Properties

\* The entity->index map has m_Size entries, the index->entity map has the
\* keys 0 .. m_Size-1, and the two maps are inverses of each other.
WellFormed(s) ==
    /\ Cardinality(DOMAIN s.m_EntityToIndexMap) = s.m_Size
    /\ DOMAIN s.m_IndexToEntityMap = 0 .. (s.m_Size - 1)
    /\ \A e \in DOMAIN s.m_EntityToIndexMap :
          /\ s.m_EntityToIndexMap[e] \in DOMAIN s.m_IndexToEntityMap
          /\ s.m_IndexToEntityMap[s.m_EntityToIndexMap[e]] = e
    /\ \A i \in DOMAIN s.m_IndexToEntityMap :
          /\ s.m_IndexToEntityMap[i] \in DOMAIN s.m_EntityToIndexMap
          /\ s.m_EntityToIndexMap[s.m_IndexToEntityMap[i]] = i

\* C1: after every call, every component array is well-formed: as many
\* entity->index entries as m_Size, index->entity keys exactly 0 .. m_Size-1,
\* and the two maps mutually inverse.
C1_WellFormedAlways ==
    \A t \in DOMAIN m_ComponentArrays : WellFormed(m_ComponentArrays[t])

\* The slots the index->entity map gives to entity e.
SlotsOf(s, e) == {i \in DOMAIN s.m_IndexToEntityMap : s.m_IndexToEntityMap[i] = e}

\* C2: AddComponent on an entity that already has the component overwrites in
\* place: m_Size is unchanged, the entity keeps its slot index, and no second
\* slot is mapped to it.
C2_OverwriteInPlace ==
    [][ (last'.op = "AddComponent" /\ last'.had) =>
          LET t == last'.t
              e == last'.e
              old == m_ComponentArrays[t]
              new == m_ComponentArrays'[t]
          IN  /\ new.m_Size = old.m_Size
              /\ new.m_EntityToIndexMap[e] = old.m_EntityToIndexMap[e]
              /\ SlotsOf(new, e) = SlotsOf(old, e) ]_vars

\* C3: right after AddComponent(e, v), GetData(e) returns v, whatever an
\* out-of-bounds read may yield; and right after RemoveComponent(e), HasData(e)
\* is false.
C3_RoundTrip ==
    /\ last.op = "AddComponent" =>
          \A g \in AnyValue : GetData(m_ComponentArrays[last.t], last.e, g) = last.v
    /\ last.op = "RemoveComponent" => ~Has(last.t, last.e)

\* C4: RemoveComponent of a component that is there makes HasData(e) false,
\* takes one off m_Size, moves the entity of the last slot with its value into
\* e's old slot, and leaves HasData and GetData of every other entity as
\* they were.
C4_SwapRemoveFrame ==
    [][ (last'.op = "RemoveComponent" /\ last'.had) =>
          LET t == last'.t
              e == last'.e
              old == m_ComponentArrays[t]
              new == m_ComponentArrays'[t]
              slot == old.m_EntityToIndexMap[e]
              lastSlot == old.m_Size - 1
              moved == old.m_IndexToEntityMap[lastSlot]
          IN  /\ ~HasData(new, e)
              /\ new.m_Size = old.m_Size - 1
              /\ moved # e =>
                    /\ HasData(new, moved)
                    /\ new.m_EntityToIndexMap[moved] = slot
                    /\ new.m_ComponentArray[slot] = old.m_ComponentArray[lastSlot]
              /\ \A other \in Entity \ {e} :
                    /\ HasData(new, other) = HasData(old, other)
                    /\ HasData(old, other) =>
                          GetData(new, other, 0) = GetData(old, other, 0) ]_vars

\* C5: every call Each makes of func is for an entity of the first array,
\* each such entity gets exactly one call, and the call carries, for every
\* component type of the view, the value GetData gives for that entity.
C5_EachOwnData ==
    last.op = "Each" =>
        LET calls == last.ret
            first == m_ComponentArrays[ViewTypes[1]]
        IN  /\ Len(calls) = Cardinality(DOMAIN first.m_EntityToIndexMap)
            /\ {calls[k].entity : k \in DOMAIN calls} = DOMAIN first.m_EntityToIndexMap
            /\ \A k \in DOMAIN calls : \A j \in DOMAIN ViewTypes :
                  calls[k].args[j] =
                      GetData(m_ComponentArrays[ViewTypes[j]], calls[k].entity, 0)

\* C6: an entity that was destroyed has no component of a type until that
\* type is added to it again.
C6_DestroyedHasNone ==
    \A p \in detached : ~Has(p[1], p[2])

\* C7: CreateEntity with MaxEntities entities living fails its assert and
\* changes neither the free-list nor the count; and the CreateEntity that
\* follows a DestroyEntity(e) made with the free-list empty returns e.
C7_CapacityAndRecycle ==
    [][ /\ (m_LivingEntityCount = MaxEntities /\ last'.op = "CreateEntity") =>
              /\ last'.err
              /\ m_AvailableEntities' = m_AvailableEntities
              /\ m_LivingEntityCount' = m_LivingEntityCount
        /\ (last.op = "DestroyEntity" /\ Len(m_AvailableEntities) = 1
              /\ last'.op = "CreateEntity") =>
              /\ ~last'.err
              /\ last'.ret = last.e ]_vars

\* A CreateEntity has just failed with every id in use.
C7_Witness ==
    /\ last.op = "CreateEntity"
    /\ last.err
    /\ m_LivingEntityCount = MaxEntities
    /\ m_AvailableEntities = <<>>

\* Every id is in the free-list exactly once or living, never both; the
\* count is MaxEntities less the length of the free-list.
FreeOrLive ==
    /\ \A i, j \in DOMAIN m_AvailableEntities :
          i # j => m_AvailableEntities[i] # m_AvailableEntities[j]
    /\ Available \cap living = {}
    /\ Available \cup living = Entity
    /\ m_LivingEntityCount = MaxEntities - Len(m_AvailableEntities)
    /\ m_LivingEntityCount = Cardinality(living)

\* C8: every id is either free (once in the free-list) or living, the count
\* is MaxEntities less the free-list's length, and CreateEntity never returns
\* an id that is living.
C8_FreeOrLive ==
    /\ []FreeOrLive
    /\ [][ (last'.op = "CreateEntity" /\ ~last'.err) =>
              (last'.ret \notin living /\ last'.ret \in living') ]_vars

\* An id has been destroyed and handed out again while another is free.
C8_Witness ==
    /\ last.op = "CreateEntity"
    /\ ~last.err
    /\ last.ret = 0
    /\ m_AvailableEntities = <<2>>
    /\ living = {0, 1}

\* C9: OnEntityDestroyed(e) on an array that does not hold e changes nothing
\* of the array, and after any OnEntityDestroyed(e) the array does not hold e
\* (so a second call in a row changes nothing).
C9_OnEntityDestroyedIdempotent ==
    [][ last'.op = "OnEntityDestroyed" =>
          LET t == last'.t
              e == last'.e
          IN  /\ ~last'.had => m_ComponentArrays'[t] = m_ComponentArrays[t]
              /\ ~HasData(m_ComponentArrays'[t], e) ]_vars

\* OnEntityDestroyed was called for an entity the array did not hold, and the
\* array holds others.
C9_Witness ==
    /\ last.op = "OnEntityDestroyed"
    /\ ~last.had
    /\ m_ComponentArrays[last.t].m_Size > 0
    /\ DOMAIN m_ComponentArrays[last.t].m_EntityToIndexMap # {}

\* C10: RemoveComponent of a component that is not there changes nothing of
\* the array: not m_Size, not the maps, not a stored value.
C10_RemoveAbsentNotAttempted ==
    [][ (last'.op = "RemoveComponent" /\ ~last'.had) =>
          m_ComponentArrays'[last'.t] = GetComponentArray(last'.t)[last'.t] ]_vars

\* The entities a range iteration yielded, and whether each came once.
Yielded(order) == {order[k] : k \in DOMAIN order}

OnceEach(order) == \A i, j \in DOMAIN order : i # j => order[i] # order[j]

\* C11: the range iteration over View<T_0, T_1> goes through every entity that
\* has all the component types of the view, each once, and through no entity
\* that lacks one of them.
C11_RangeIsFiltered ==
    last.op = "Range" =>
        /\ OnceEach(last.ret)
        /\ Yielded(last.ret) =
               {entity \in Entity : \A t \in TypeIds : Has(t, entity)}

C13_ViewReadOnly ==
    [][ last'.op \in {"Each", "Get"} =>
          \A t \in TypeIds :
              LET old == ViewArrays[t]
                  new == m_ComponentArrays'[t]
              IN  /\ new.m_Size = old.m_Size
                  /\ new.m_EntityToIndexMap = old.m_EntityToIndexMap
                  /\ new.m_IndexToEntityMap = old.m_IndexToEntityMap
                  /\ \A entity \in Entity :
                        HasData(new, entity) = HasData(old, entity) ]_vars

\* C14: GetComponent<T>(e) or HasComponent<T>(e) on a type T that has no
\* array yet does not fail and makes an empty array for T: after the call
\* HasData is false for every entity, and HasComponent has returned false.
C14_QueryUnusedType ==
    [][ (last'.op \in {"GetComponent", "HasComponent"}
            /\ last'.t \notin DOMAIN m_ComponentArrays) =>
          /\ ~last'.err
          /\ last'.t \in DOMAIN m_ComponentArrays'
          /\ \A entity \in Entity : ~HasData(m_ComponentArrays'[last'.t], entity)
          /\ last'.op = "HasComponent" => last'.ret = FALSE ]_vars

\* C15: View<T_0, T_1>::Contains(e) returns true exactly when HasComponent of
\* both types is true for e, and View::Get(e) on an entity the view does not
\* contain fails its assert and leaves every array as it was.
C15_ContainsIsIntersection ==
    /\ [](last.op = "Contains" =>
            (last.ret <=> \A t \in TypeIds : Has(t, last.e)))
    /\ [][ (last'.op = "Get" /\ ~(\A t \in TypeIds : Has(t, last'.e))) =>
              /\ last'.err
              /\ m_ComponentArrays' = ViewArrays ]_vars

\* View::Get has failed for an entity that has T_0 and not T_1.
C15_Witness ==
    /\ last.op = "Get"
    /\ last.err
    /\ Has(ViewTypes[1], last.e)
    /\ ~Has(ViewTypes[2], last.e)

\* The free-list of a Registry on which k entities were created and none
\* destroyed: the ids k .. MaxEntities-1 in increasing order.
FreshQueue(k) == SubSeq(PushAll(MaxEntities), k + 1, MaxEntities)

\* C16: ids are issued first in, first out: CreateEntity returns the front of
\* the free-list and takes it off, so that on a fresh Registry the calls
\* return 0, 1, 2, ... in turn; DestroyEntity(e) puts e at the back, behind
\* every id that was free, and those are issued before e is issued again.
C16_FifoIds ==
    [][ /\ (last'.op = "CreateEntity" /\ ~last'.err) =>
              /\ last'.ret = Head(m_AvailableEntities)
              /\ m_AvailableEntities' = Tail(m_AvailableEntities)
              /\ m_AvailableEntities = FreshQueue(m_LivingEntityCount) =>
                    /\ last'.ret = m_LivingEntityCount
                    /\ m_AvailableEntities' = FreshQueue(m_LivingEntityCount + 1)
        /\ last'.op = "DestroyEntity" =>
              /\ Len(m_AvailableEntities') = Len(m_AvailableEntities) + 1
              /\ m_AvailableEntities'[Len(m_AvailableEntities')] = last'.e
              /\ \A i \in DOMAIN m_AvailableEntities :
                    m_AvailableEntities'[i] = m_AvailableEntities[i] ]_vars

\* Ids 1 and 0 were destroyed in that order with none free, and 1 has been
\* issued again ahead of 0.
C16_Witness ==
    /\ last.op = "CreateEntity"
    /\ ~last.err
    /\ last.ret = 1
    /\ m_AvailableEntities = <<0>>
    /\ living = Entity \ {0}

\* C17 as stated: the component iteration of an array yields the values of
\* the slots 0 .. m_Size-1, each once, slot 0 first and slot m_Size-1 last,
\* and nothing when m_Size is 0.
C17_SlotOrder ==
    last.op = "Iterate" =>
        LET s == m_ComponentArrays[last.t]
        IN  /\ Len(last.ret) = s.m_Size
            /\ \A k \in DOMAIN last.ret :
                  last.ret[k] = s.m_ComponentArray[k - 1]

\* C17, amended: the component iteration of an array yields the values of
\* the slots 0 .. m_Size-1, each once, slot m_Size-1 first and slot 0 last,
\* and nothing when m_Size is 0.
C17_ReverseSlotOrder ==
    last.op = "Iterate" =>
        LET s == m_ComponentArrays[last.t]
        IN  /\ Len(last.ret) = s.m_Size
            /\ \A k \in DOMAIN last.ret :
                  last.ret[k] = s.m_ComponentArray[s.m_Size - k]

\* An array whose first and last occupied slots hold different values has
\* been walked.
C17_Witness ==
    /\ last.op = "Iterate"
    /\ m_ComponentArrays[last.t].m_Size >= 2
    /\ m_ComponentArrays[last.t].m_ComponentArray[0] #
           m_ComponentArrays[last.t].m_ComponentArray[m_ComponentArrays[last.t].m_Size - 1]

\* C18: the array is never used past its capacity: m_Size <= MaxEntities in
\* every state, repeated AddComponent of a type to an entity included, and
\* AddComponent writes to a slot below MaxEntities.
C18_WithinCapacity ==
    /\ [](\A t \in DOMAIN m_ComponentArrays :
             m_ComponentArrays[t].m_Size <= MaxEntities)
    /\ [][ last'.op = "AddComponent" =>
              GetComponentArray(last'.t)[last'.t].m_Size < MaxEntities ]_vars

\* C19: when Each is called, the first array of the view holds as many
\* entities as its m_Size: every round of the loop reads a slot of
\* 0 .. m_Size-1 and the component iterator is at end() when the entity
\* iterator is.
C19_EachInBounds ==
    [][ last'.op = "Each" =>
          LET first == ViewArrays[ViewTypes[1]]
              rounds == Len(last'.ret)
          IN  /\ rounds = Cardinality(DOMAIN first.m_EntityToIndexMap)
              /\ \A k \in 1 .. rounds :
                    (first.m_Size - k) \in 0 .. (first.m_Size - 1)
              /\ first.m_Size - rounds = 0 ]_vars

====
